---- MODULE Spec2Model ----
(***************************************************************************)
(* Model of the PIP VC service: credential encoding (vcService), pod       *)
(* persistence (podService) and the /vc routes that drive them.            *)
(*                                                                         *)
(* Representation conventions                                              *)
(*   - a JavaScript value that may be undefined is a sequence: <<>> is     *)
(*     undefined, <<v>> is the value v;                                    *)
(*   - a string built by template interpolation is the sequence of its     *)
(*     parts;                                                              *)
(*   - a URL string is the record of its protocol, host and path segments, *)
(*     a path segment being the sequence of the string parts it is made of;*)
(*   - the pod (the remote Solid server behind putResource) is a function  *)
(*     from resource URL to the content last PUT there.                    *)
(***************************************************************************)
EXTENDS Integers, Sequences, FiniteSets, TLC

\* ------------------------------------------------------------------ bounds
MaxReq == 2     \* HTTP requests handled (concurrently) in one behaviour
MaxClock == 1   \* distinct readings of the wall clock

Reqs == 1..MaxReq

\* ------------------------------------------------- JavaScript value helpers
NoValue == <<>>

Some(v) == <<v>>

IsDefined(o) == o # NoValue

\* a || b on an optional a
OrElse(o, d) == IF IsDefined(o) THEN o[1] ELSE d

\* `${o}` on an optional string: undefined interpolates as "undefined"
Interpolate(o) == IF IsDefined(o) THEN o[1] ELSE "undefined"

\* obj.k : undefined when obj has no property k
Prop(obj, k) == IF k \in DOMAIN obj THEN Some(obj[k]) ELSE NoValue

\* ----------------------------------------------------------------- URLs
\* A string that `new URL(s)` rejects has no protocol.
InvalidUrl == [protocol |-> "", host |-> "", path |-> <<<<"not a url">>>>]

IsParseable(u) == u.protocol # ""

DefaultPdsBase == [protocol |-> "https:", host |-> "pds.solid.example.org", path |-> <<>>]

\* new URL(rel, base) for a relative path `rel` (a sequence of segments):
\* the base's last path segment is replaced by rel; a base with an empty
\* path has the path "/".
ResolveUrl(rel, base) ==
    LET basePath == IF base.path = <<>> THEN << <<>> >> ELSE base.path
    IN [protocol |-> base.protocol, host |-> base.host,
        path |-> SubSeq(basePath, 1, Len(basePath) - 1) \o rel]

\* `${url}${suffix}`: the suffix lands in the last path segment
WithSuffix(url, suffix) ==
    [url EXCEPT !.path[Len(url.path)] = Append(@, suffix)]

\* --------------------------------------------------------- process.env
\* process.env.NAME || fallback : an unset variable takes the fallback
EnvOr(o, d) == OrElse(o, d)

ServiceDids == {NoValue, Some("did:web:pip.example.org")}

PdsBases == {NoValue, Some([protocol |-> "https:", host |-> "pds.example.org", path |-> <<>>])}

Envs == [SERVICE_DID_WEB : ServiceDids, DEFAULT_PDS_BASE : PdsBases]

\* ------------------------------------------------------------ VcService
\* vcData is [id, webid, benefitData, preview]: id, webid and preview are
\* optional values, benefitData is a record holding the claims it was given.

\* `const { ..., preview = false } = vcData`
PreviewOf(vcData) == OrElse(vcData.preview, FALSE)

IssuerOf(e) == EnvOr(e.SERVICE_DID_WEB, "did:web:pip.gov.uk")

Context ==
    << "https://www.w3.org/2018/credentials/v1", "https://schema.org/",
       [PIPBenefitCredential |-> "https://gov.uk/schemas/PIPBenefitCredential",
        benefitType |-> "https://schema.org/name",
        amount |-> "https://schema.org/amount",
        assessmentDate |-> "https://schema.org/dateCreated",
        components |-> "https://gov.uk/schemas/benefitComponents"] >>

\* JSON.stringify: properties whose value is undefined are left out. The
\* properties generateJsonLdVc copies from its input (id, and the subject's id,
\* benefitType, amount and assessmentDate) are the ones that can be undefined.
JsonStringify(vc) ==
    LET keep(obj, optional) ==
            [k \in {j \in DOMAIN obj : j \in optional => obj[j] # NoValue} |-> obj[k]]
        top == keep(vc, {"id"})
    IN [k \in DOMAIN top |->
            IF k = "credentialSubject"
            THEN keep(top[k], {"id", "benefitType", "amount", "assessmentDate"})
            ELSE top[k]]

\* sha256 of the serialised credential, cut to 16 hex digits: one string per
\* distinct serialisation
generateMockSignature(vc) == <<"mock-jws-signature-", ToString(JsonStringify(vc))>>

generateProof(vc, e, t) ==
    [type |-> "RsaSignature2018",
     created |-> t,
     proofPurpose |-> "assertionMethod",
     verificationMethod |-> <<Interpolate(e.SERVICE_DID_WEB), "#key-1">>,
     jws |-> generateMockSignature(vc)]

generateJsonLdVc(vcData, e, t) ==
    LET benefitData == vcData.benefitData
        subject0 == [id |-> vcData.webid,
                     benefitType |-> Prop(benefitData, "benefitType"),
                     amount |-> Prop(benefitData, "amount"),
                     assessmentDate |-> Prop(benefitData, "assessmentDate")]
        subject1 == IF "components" \in DOMAIN benefitData
                    THEN subject0 @@ [components |-> benefitData.components]
                    ELSE subject0
        subject2 == IF "totalWeeklyAmount" \in DOMAIN benefitData
                    THEN subject1 @@ [totalWeeklyAmount |-> benefitData.totalWeeklyAmount]
                    ELSE subject1
        vc == ("@context" :> Context) @@
              [id |-> vcData.id,
               type |-> <<"VerifiableCredential", "PIPBenefitCredential">>,
               issuer |-> IssuerOf(e),
               issuanceDate |-> t,
               credentialSubject |-> subject2]
    IN IF ~PreviewOf(vcData)
       THEN vc @@ [proof |-> generateProof(vc, e, t)]
       ELSE vc

\* the statements about <id> up to the optional schema:totalAmount
TurtleStatements(vcData, e, t) ==
    LET benefitData == vcData.benefitData
        stmts == [a |-> "cred:VerifiableCredential"] @@
                 ("rdf:type" :> "https://gov.uk/schemas/PIPBenefitCredential") @@
                 ("cred:issuer" :> IssuerOf(e)) @@
                 ("cred:credentialSubject" :> Interpolate(vcData.webid)) @@
                 ("cred:issuanceDate" :> t) @@
                 ("dc:created" :> t) @@
                 ("dc:title" :> "PIP Benefit Award Credential") @@
                 ("dc:creator" :> IssuerOf(e)) @@
                 ("schema:benefitType" :> Interpolate(Prop(benefitData, "benefitType"))) @@
                 ("schema:amount" :> Interpolate(Prop(benefitData, "amount"))) @@
                 ("schema:dateCreated" :> Interpolate(Prop(benefitData, "assessmentDate")))
    IN IF "totalWeeklyAmount" \in DOMAIN benefitData
       THEN stmts @@ ("schema:totalAmount" :> benefitData.totalWeeklyAmount)
       ELSE stmts

\* the cred:proof [ ... ] block
TurtleProof(e, t, rnd) ==
    [a |-> "cred:Proof"] @@
    ("cred:type" :> "RsaSignature2018") @@
    ("cred:created" :> t) @@
    ("cred:proofPurpose" :> "assertionMethod") @@
    ("cred:verificationMethod" :> <<Interpolate(e.SERVICE_DID_WEB), "#key-1">>) @@
    ("cred:jws" :> <<"mock-signature-", ToString(rnd)>>)

\* generateTurtleVc with the proof block emitted whatever the preview flag says
generateTurtleVcAlwaysProof(vcData, e, t, rnd) ==
    [subject |-> Interpolate(vcData.id),
     statements |-> TurtleStatements(vcData, e, t) @@
                    ("cred:proof" :> TurtleProof(e, t, rnd))]

generateTurtleVc(vcData, e, t, rnd) ==
    [subject |-> Interpolate(vcData.id),
     statements |-> IF ~PreviewOf(vcData)
                    THEN TurtleStatements(vcData, e, t) @@
                         ("cred:proof" :> TurtleProof(e, t, rnd))
                    ELSE TurtleStatements(vcData, e, t)]

\* What a reader of each encoding finds
JsonLdHasProof(vc) == "proof" \in DOMAIN vc

TurtleHasProof(turtle) == "cred:proof" \in DOMAIN turtle.statements

\* ----------------------------------------------------------- PodService
\* req.user.webid values: two subjects on one host, and a webid claim that
\* is not a URL (authMiddleware accepts any non-empty webid claim)
Alice == [protocol |-> "https:", host |-> "user.example.org", rest |-> "/profile/card#me"]

Bob == [protocol |-> "https:", host |-> "user.example.org", rest |-> "/bob/card#me"]

Carol == [protocol |-> "", host |-> "", rest |-> "carol"]

WebIds == {Alice, Bob, Carol}

\* req.body.podUrl values: absent, a pod root, or a string that is no URL
ExplicitPod == [protocol |-> "https:", host |-> "pod.example.org", path |-> << <<>> >>]

PodUrlInputs == {NoValue, Some(ExplicitPod), Some(InvalidUrl)}

discoverPodUrl(webid, e) ==
    IF IsParseable(webid)
    THEN [protocol |-> webid.protocol, host |-> webid.host,
          path |-> << <<"storage">>, <<>> >>]
    ELSE EnvOr(e.DEFAULT_PDS_BASE, DefaultPdsBase)

\* new URL(`credentials/${vcId}`, podUrl)
CredentialUrl(podUrl, vcId) == ResolveUrl(<< <<"credentials">>, vcId >>, podUrl)

JsonLdUrl(podUrl, vcId) == WithSuffix(CredentialUrl(podUrl, vcId), ".jsonld")

TurtleUrl(podUrl, vcId) == WithSuffix(CredentialUrl(podUrl, vcId), ".ttl")

IndexUrl(podUrl) == ResolveUrl(<< <<"credentials">>, <<"index.ttl">> >>, podUrl)

AclUrl(podUrl, vcId) ==
    ResolveUrl(<< <<"credentials">>, vcId \o <<".jsonld.acl">> >>, podUrl)

\* the Turtle document updateCredentialsIndex builds
IndexEntry(podUrl, vcId, t) ==
    [container |-> ResolveUrl(<< <<"credentials">>, <<>> >>, podUrl),
     contains |-> {Append(vcId, ".jsonld"), Append(vcId, ".ttl")},
     created |-> t]

\* the ACL document setCredentialPermissions builds
\* the ACL with the authenticated-agent class allowed to write as well
AclDocumentPublicWrite(vcId, user) ==
    LET accessTo == {Append(vcId, ".jsonld"), Append(vcId, ".ttl")}
    IN [owner |-> [agent |-> user.webid, accessTo |-> accessTo,
                   mode |-> {"acl:Read", "acl:Write", "acl:Control"}],
        eonAccess |-> [agent |-> "https://eon.co.uk/did.json", accessTo |-> accessTo,
                       mode |-> {"acl:Read"}],
        publicRead |-> [agentClass |-> "acl:AuthenticatedAgent", accessTo |-> accessTo,
                        mode |-> {"acl:Read", "acl:Write"}]]

AclDocument(vcId, user) ==
    LET accessTo == {Append(vcId, ".jsonld"), Append(vcId, ".ttl")}
    IN [owner |-> [agent |-> user.webid, accessTo |-> accessTo,
                   mode |-> {"acl:Read", "acl:Write", "acl:Control"}],
        eonAccess |-> [agent |-> "https://eon.co.uk/did.json", accessTo |-> accessTo,
                       mode |-> {"acl:Read"}],
        publicRead |-> [agentClass |-> "acl:AuthenticatedAgent", accessTo |-> accessTo,
                        mode |-> {"acl:Read"}]]

\* HTTP DELETE: the resource at url is gone
deleteResource(p, url) == [u \in DOMAIN p \ {url} |-> p[u]]

\* HTTP PUT: the resource at url is created or replaced. putResource stands
\* for the PUT request of production code ("this would make actual HTTP
\* requests"); a request that throws leaves the pod as it was and takes the
\* catch of lines 90-92, which the actions below choose with `ok`.
putResource(p, url, content, contentType) ==
    (url :> [contentType |-> contentType, content |-> content]) @@ p

\* ---------------------------------------------------------------- state
VARIABLES
    env,        \* process.env
    now,        \* the wall clock read by new Date()
    nextUuid,   \* number of uuidv4() values drawn so far
    nextRand,   \* number of crypto.randomBytes(16) values drawn so far
    pod,        \* resource URL -> what was last PUT there
    req         \* per HTTP request: where its handler stands and what it holds

vars == <<env, now, nextUuid, nextRand, pod, req>>

IdleRequest ==
    [pc |-> "idle", route |-> "none", user |-> NoValue, body |-> NoValue,
     args |-> NoValue,
     vcId |-> NoValue, jsonLdVc |-> NoValue, turtleVc |-> NoValue,
     targetPodUrl |-> NoValue, calls |-> <<>>, storageResult |-> NoValue,
     res |-> NoValue]

Init ==
    /\ env \in Envs
    /\ now = 0
    /\ nextUuid = 0
    /\ nextRand = 0
    /\ pod = <<>>
    /\ req = [r \in Reqs |-> IdleRequest]

\* `urn:uuid:${uuidv4()}`
FreshVcId == <<"urn:uuid:", ToString(nextUuid)>>

\* requests are numbered in the order they arrive
Arrives(r) == IF r = 1 THEN TRUE ELSE req[r - 1].pc # "idle"

\* one pod call as the handler of a request saw it
Call(op, url, ok) == [op |-> op, url |-> url, ok |-> ok]

\* the clock moves on between any two steps
Tick ==
    /\ now < MaxClock
    /\ now' = now + 1
    /\ UNCHANGED <<env, nextUuid, nextRand, pod, req>>

\* ------------------------------------------------------ GET /vc/preview
PreviewBenefitData ==
    [benefitType |-> "PIP", amount |-> "90.10/week", assessmentDate |-> "2025-01-15",
     components |-> <<"Daily Living - Standard", "Mobility - Enhanced">>]

AcceptHeaders == {"application/ld+json", "text/turtle", "*/*"}

PreviewResponse(accept, vcId, webid, jsonLdVc, turtleVc, e, t) ==
    IF accept = "application/ld+json"
    THEN [status |-> 200, contentType |-> "application/ld+json", body |-> jsonLdVc]
    ELSE IF accept = "text/turtle"
    THEN [status |-> 200, contentType |-> "text/turtle", body |-> turtleVc]
    ELSE [status |-> 200, contentType |-> "application/json",
          body |-> [id |-> vcId, preview |-> TRUE,
                    formats |-> [jsonld |-> jsonLdVc, turtle |-> turtleVc],
                    metadata |-> [issuer |-> e.SERVICE_DID_WEB, subject |-> webid,
                                  issuanceDate |-> t,
                                  benefitType |-> PreviewBenefitData.benefitType,
                                  amount |-> PreviewBenefitData.amount]]]

PreviewRequest(r) ==
    /\ req[r].pc = "idle"
    /\ Arrives(r)
    /\ \E webid \in WebIds, accept \in AcceptHeaders :
        LET vcId == FreshVcId
            vcData == [id |-> Some(vcId), webid |-> Some(webid),
                       benefitData |-> PreviewBenefitData, preview |-> Some(TRUE)]
            jsonLdVc == generateJsonLdVc(vcData, env, now)
            turtleVc == generateTurtleVc(vcData, env, now, nextRand)
        IN req' = [req EXCEPT ![r] =
                [@ EXCEPT !.pc = "done", !.route = "preview",
                          !.user = Some([webid |-> webid]),
                          !.vcId = Some(vcId),
                          !.jsonLdVc = Some(jsonLdVc),
                          !.turtleVc = Some(turtleVc),
                          !.res = Some(PreviewResponse(accept, vcId, webid,
                                                       jsonLdVc, turtleVc, env, now))]]
    /\ nextUuid' = nextUuid + 1
    /\ UNCHANGED <<env, now, nextRand, pod>>

\* -------------------------------------------------------- POST /vc/issue
IssueBenefitData ==
    [benefitType |-> "PIP", amount |-> "90.10/week", assessmentDate |-> "2025-01-15",
     totalWeeklyAmount |-> "162.90",
     components |-> [dailyLiving |-> "Standard - 68.10", mobility |-> "Enhanced - 94.80"]]

\* the issue route marking its credential as a preview
IssueVcDataAsPreview(vcId, webid) ==
    [id |-> Some(vcId), webid |-> Some(webid),
     benefitData |-> IssueBenefitData, preview |-> Some(TRUE)]

\* the vcData the issue route hands to both encoders
IssueVcData(vcId, webid) ==
    [id |-> Some(vcId), webid |-> Some(webid),
     benefitData |-> IssueBenefitData, preview |-> Some(FALSE)]

\* lines 219-222: the body of the 400 answer
ConfirmationRequired ==
    [error |-> "Confirmation required",
     message |-> "Must confirm VC issuance by setting confirm: true"]

\* the issue route encoding the credential before it tests confirm
IssueRequestEncodesFirst(r) ==
    /\ req[r].pc = "idle"
    /\ Arrives(r)
    /\ \E webid \in WebIds, confirm \in BOOLEAN, podUrl \in PodUrlInputs :
        LET body == [confirm |-> confirm, podUrl |-> podUrl]
            vcData == IssueVcData(FreshVcId, webid)
            encoded == [req[r] EXCEPT
                            !.route = "issue",
                            !.user = Some([webid |-> webid]),
                            !.body = Some(body),
                            !.vcId = Some(FreshVcId),
                            !.jsonLdVc = Some(generateJsonLdVc(vcData, env, now)),
                            !.turtleVc = Some(generateTurtleVc(vcData, env, now, nextRand))]
        IN req' = [req EXCEPT ![r] =
                IF ~confirm
                THEN [encoded EXCEPT !.pc = "done",
                        !.res = Some([status |-> 400,
                                      body |-> ConfirmationRequired])]
                ELSE [encoded EXCEPT !.pc = "resolve"]]
    /\ nextUuid' = nextUuid + 1
    /\ nextRand' = nextRand + 1
    /\ UNCHANGED <<env, now, pod>>

\* lines 216-251: the confirm test, then both encodings of a fresh credential
IssueRequest(r) ==
    /\ req[r].pc = "idle"
    /\ Arrives(r)
    /\ \E webid \in WebIds, confirm \in BOOLEAN, podUrl \in PodUrlInputs :
        LET body == [confirm |-> confirm, podUrl |-> podUrl]
            started == [req[r] EXCEPT !.route = "issue",
                                      !.user = Some([webid |-> webid]),
                                      !.body = Some(body)]
        IN IF ~confirm
           THEN /\ req' = [req EXCEPT ![r] =
                        [started EXCEPT !.pc = "done",
                            !.res = Some([status |-> 400,
                                          body |-> ConfirmationRequired])]]
                /\ UNCHANGED <<nextUuid, nextRand>>
           ELSE LET vcData == IssueVcData(FreshVcId, webid)
                IN /\ req' = [req EXCEPT ![r] =
                        [started EXCEPT !.pc = "resolve",
                            !.vcId = Some(FreshVcId),
                            !.jsonLdVc = Some(generateJsonLdVc(vcData, env, now)),
                            !.turtleVc = Some(generateTurtleVc(vcData, env, now, nextRand))]]
                   /\ nextUuid' = nextUuid + 1
                   /\ nextRand' = nextRand + 1
    /\ UNCHANGED <<env, now, pod>>

\* line 254: podUrl || await podService.discoverPodUrl(webid)
ResolveRoot(r) ==
    /\ req[r].pc = "resolve"
    /\ LET podUrl == req[r].body[1].podUrl
           webid == req[r].user[1].webid
       IN req' = [req EXCEPT ![r] =
            IF IsDefined(podUrl)
            THEN [@ EXCEPT !.pc = "putJsonLd", !.targetPodUrl = podUrl]
            ELSE [@ EXCEPT !.pc = "putJsonLd",
                           !.targetPodUrl = Some(discoverPodUrl(webid, env)),
                           !.calls = Append(@, Call("discoverPodUrl", NoValue, TRUE))]]
    /\ UNCHANGED <<env, now, nextUuid, nextRand, pod>>

\* the message of whatever the transport under putResource throws
TransportError == "Request failed"

\* storeCredential's catch (lines 64-67) and the route's catch (281-287):
\* whatever was thrown surfaces as one 500 response
IssueFailed(rq, cause) ==
    [rq EXCEPT !.pc = "done",
               !.res = Some([status |-> 500,
                             body |-> [error |-> "VC issuance failed",
                                       message |-> <<"Failed to store credential: ">> \o cause]])]

\* lines 41-46: the credential URL, then the JSON-LD PUT
PutJsonLd(r) ==
    /\ req[r].pc = "putJsonLd"
    /\ LET rq == req[r]
           podUrl == rq.targetPodUrl[1]
           url == JsonLdUrl(podUrl, rq.vcId[1])
       IN IF ~IsParseable(podUrl)
          THEN /\ req' = [req EXCEPT ![r] = IssueFailed(rq, <<"Invalid URL">>)]
               /\ UNCHANGED pod
          ELSE \E ok \in BOOLEAN :
                IF ok
                THEN /\ pod' = putResource(pod, url, JsonStringify(rq.jsonLdVc[1]),
                                           "application/ld+json")
                     /\ req' = [req EXCEPT ![r] =
                            [rq EXCEPT !.pc = "putTurtle",
                                       !.calls = Append(@, Call("putJsonLd", Some(url), TRUE))]]
                ELSE /\ UNCHANGED pod
                     /\ req' = [req EXCEPT ![r] =
                            IssueFailed([rq EXCEPT !.calls =
                                            Append(@, Call("putJsonLd", Some(url), FALSE))],
                                        <<"HTTP PUT failed: ", TransportError>>)]
    /\ UNCHANGED <<env, now, nextUuid, nextRand>>

\* the Turtle PUT with a rollback: a failure deletes the JSON-LD artifact
PutTurtleRollsBack(r) ==
    /\ req[r].pc = "putTurtle"
    /\ LET rq == req[r]
           url == TurtleUrl(rq.targetPodUrl[1], rq.vcId[1])
       IN \E ok \in BOOLEAN :
            IF ok
            THEN /\ pod' = putResource(pod, url, rq.turtleVc[1], "text/turtle")
                 /\ req' = [req EXCEPT ![r] =
                        [rq EXCEPT !.pc = "index",
                                   !.calls = Append(@, Call("putTurtle", Some(url), TRUE))]]
            ELSE /\ pod' = deleteResource(pod, JsonLdUrl(rq.targetPodUrl[1], rq.vcId[1]))
                 /\ req' = [req EXCEPT ![r] =
                        IssueFailed([rq EXCEPT !.calls =
                                        Append(@, Call("putTurtle", Some(url), FALSE))],
                                    <<"HTTP PUT failed: ", TransportError>>)]
    /\ UNCHANGED <<env, now, nextUuid, nextRand>>

\* line 49: the Turtle PUT
PutTurtle(r) ==
    /\ req[r].pc = "putTurtle"
    /\ LET rq == req[r]
           url == TurtleUrl(rq.targetPodUrl[1], rq.vcId[1])
       IN \E ok \in BOOLEAN :
            IF ok
            THEN /\ pod' = putResource(pod, url, rq.turtleVc[1], "text/turtle")
                 /\ req' = [req EXCEPT ![r] =
                        [rq EXCEPT !.pc = "index",
                                   !.calls = Append(@, Call("putTurtle", Some(url), TRUE))]]
            ELSE /\ UNCHANGED pod
                 /\ req' = [req EXCEPT ![r] =
                        IssueFailed([rq EXCEPT !.calls =
                                        Append(@, Call("putTurtle", Some(url), FALSE))],
                                    <<"HTTP PUT failed: ", TransportError>>)]
    /\ UNCHANGED <<env, now, nextUuid, nextRand>>

\* the index PUT without its catch: a failure fails the issuance
updateCredentialsIndexThrows(r) ==
    /\ req[r].pc = "index"
    /\ LET rq == req[r]
           podUrl == rq.targetPodUrl[1]
           url == IndexUrl(podUrl)
       IN \E ok \in BOOLEAN :
            IF ok
            THEN /\ pod' = putResource(pod, url, IndexEntry(podUrl, rq.vcId[1], now),
                                       "text/turtle")
                 /\ req' = [req EXCEPT ![r] =
                        [rq EXCEPT !.pc = "acl",
                                   !.calls = Append(@, Call("putIndex", Some(url), TRUE))]]
            ELSE /\ UNCHANGED pod
                 /\ req' = [req EXCEPT ![r] =
                        IssueFailed([rq EXCEPT !.calls =
                                        Append(@, Call("putIndex", Some(url), FALSE))],
                                    <<"HTTP PUT failed: ", TransportError>>)]
    /\ UNCHANGED <<env, now, nextUuid, nextRand>>

\* line 52 and lines 134-167: the index PUT; its failure is caught and logged
updateCredentialsIndex(r) ==
    /\ req[r].pc = "index"
    /\ LET rq == req[r]
           podUrl == rq.targetPodUrl[1]
           url == IndexUrl(podUrl)
       IN \E ok \in BOOLEAN :
            /\ pod' = IF ok
                      THEN putResource(pod, url, IndexEntry(podUrl, rq.vcId[1], now),
                                       "text/turtle")
                      ELSE pod
            /\ req' = [req EXCEPT ![r] =
                    [rq EXCEPT !.pc = "acl",
                               !.calls = Append(@, Call("putIndex", Some(url), ok))]]
    /\ UNCHANGED <<env, now, nextUuid, nextRand>>

\* the ACL PUT tried a second time when the first try fails
setCredentialPermissionsRetries(r) ==
    /\ req[r].pc = "acl"
    /\ LET rq == req[r]
           url == AclUrl(rq.targetPodUrl[1], rq.vcId[1])
       IN \E ok \in BOOLEAN, again \in BOOLEAN :
            /\ pod' = IF ok \/ again
                      THEN putResource(pod, url, AclDocument(rq.vcId[1], rq.user[1]),
                                       "text/turtle")
                      ELSE pod
            /\ req' = [req EXCEPT ![r] =
                    [rq EXCEPT !.pc = "return",
                               !.calls = IF ok
                                         THEN Append(@, Call("putAcl", Some(url), TRUE))
                                         ELSE @ \o <<Call("putAcl", Some(url), FALSE),
                                                     Call("putAcl", Some(url), again)>>]]
    /\ UNCHANGED <<env, now, nextUuid, nextRand>>

\* line 55 and lines 172-207: the ACL PUT; its failure is caught and logged
setCredentialPermissions(r) ==
    /\ req[r].pc = "acl"
    /\ LET rq == req[r]
           url == AclUrl(rq.targetPodUrl[1], rq.vcId[1])
       IN \E ok \in BOOLEAN :
            /\ pod' = IF ok
                      THEN putResource(pod, url, AclDocument(rq.vcId[1], rq.user[1]),
                                       "text/turtle")
                      ELSE pod
            /\ req' = [req EXCEPT ![r] =
                    [rq EXCEPT !.pc = "return",
                               !.calls = Append(@, Call("putAcl", Some(url), ok))]]
    /\ UNCHANGED <<env, now, nextUuid, nextRand>>

\* what storeCredential returns (lines 57-63)
StorageResult(podUrl, vcId) ==
    [success |-> TRUE,
     locations |-> [jsonld |-> JsonLdUrl(podUrl, vcId), turtle |-> TurtleUrl(podUrl, vcId)]]

\* the 201 body of the issue route (lines 265-279)
IssueResponse(rq, e, t) ==
    [status |-> 201,
     body |-> [success |-> TRUE,
               vcId |-> rq.vcId[1],
               vc |-> rq.jsonLdVc[1],
               storageLocation |-> <<rq.targetPodUrl[1], "/credentials/", rq.vcId[1]>>,
               issuanceDate |-> t,
               formats |-> <<"application/ld+json", "text/turtle">>,
               metadata |-> [issuer |-> e.SERVICE_DID_WEB,
                             subject |-> rq.user[1].webid,
                             benefitType |-> IssueBenefitData.benefitType,
                             amount |-> IssueBenefitData.amount,
                             signature |-> IF JsonLdHasProof(rq.jsonLdVc[1])
                                           THEN "present" ELSE "mock"]]]

\* storeCredential returns and the route answers 201
StoreReturn(r) ==
    /\ req[r].pc = "return"
    /\ req' = [req EXCEPT ![r] =
            [@ EXCEPT !.pc = "done",
                      !.storageResult = Some(StorageResult(req[r].targetPodUrl[1],
                                                           req[r].vcId[1])),
                      !.res = Some(IssueResponse(req[r], env, now))]]
    /\ UNCHANGED <<env, now, nextUuid, nextRand, pod>>

\* ------------------------------------------------------- specification
Next ==
    \/ Tick
    \/ \E r \in Reqs : PreviewRequest(r)
    \/ \E r \in Reqs : IssueRequest(r)
    \/ \E r \in Reqs : ResolveRoot(r)
    \/ \E r \in Reqs : PutJsonLd(r)
    \/ \E r \in Reqs : PutTurtle(r)
    \/ \E r \in Reqs : updateCredentialsIndex(r)
    \/ \E r \in Reqs : setCredentialPermissions(r)
    \/ \E r \in Reqs : StoreReturn(r)

Spec == Init /\ [][Next]_vars

\* ------------------------------------- the encoders called on their own
\* vcData values a caller of vcService can pass: the id, the webid and the
\* preview flag given or left out, and claim sets from the routes and the tests
TestBenefitData ==
    [benefitType |-> "PIP", amount |-> "90.10/week", assessmentDate |-> "2025-01-15"]

BenefitDatas ==
    {PreviewBenefitData, IssueBenefitData, TestBenefitData, [amount |-> "90.10/week"]}

VcDatas ==
    [id : {NoValue, Some(<<"urn:uuid:", "test-vc">>)},
     webid : {NoValue, Some(Alice)},
     benefitData : BenefitDatas,
     preview : {NoValue, Some(TRUE), Some(FALSE)}]

\* await generateJsonLdVc(vcData) and await generateTurtleVc(vcData): the
\* first call picks the vcData, later calls encode the same vcData again
EncodeCall(r) ==
    /\ req[r].pc = "idle"
    /\ Arrives(r)
    /\ \E vcData \in (IF r = 1 THEN VcDatas ELSE {req[1].args[1]}) :
        req' = [req EXCEPT ![r] =
            [@ EXCEPT !.pc = "done", !.route = "encode",
                      !.args = Some(vcData),
                      !.jsonLdVc = Some(generateJsonLdVc(vcData, env, now)),
                      !.turtleVc = Some(generateTurtleVc(vcData, env, now, nextRand))]]
    /\ nextRand' = nextRand + 1
    /\ UNCHANGED <<env, now, nextUuid, pod>>

NextEnc ==
    \/ Tick
    \/ \E r \in Reqs : EncodeCall(r)

SpecEnc == Init /\ [][NextEnc]_vars

\* ---------------------------------------------------------- GET /vc/list
\* lines 300-321: the list every caller is given
mockVcList(e) ==
    << [id |-> <<"urn:uuid:", "pip-benefit-award-001">>,
        type |-> "PIPBenefitCredential",
        issuanceDate |-> "2025-01-15T10:30:00Z",
        status |-> "active",
        benefitType |-> "PIP",
        amount |-> "£162.90/week",
        issuer |-> e.SERVICE_DID_WEB,
        location |-> <<"/credentials/", "urn:uuid:", "pip-benefit-award-001">>],
       [id |-> <<"urn:uuid:", "pip-benefit-award-002">>,
        type |-> "PIPBenefitCredential",
        issuanceDate |-> "2024-08-20T14:15:00Z",
        status |-> "superseded",
        benefitType |-> "PIP",
        amount |-> "£142.50/week",
        issuer |-> e.SERVICE_DID_WEB,
        location |-> <<"/credentials/", "urn:uuid:", "pip-benefit-award-002">>] >>

\* lines 323-328: the 200 body
ListResponse(webid, e) ==
    [status |-> 200,
     body |-> [webid |-> webid,
               credentials |-> mockVcList(e),
               totalCount |-> Len(mockVcList(e)),
               activeCount |-> Cardinality({i \in DOMAIN mockVcList(e) :
                                               mockVcList(e)[i].status = "active"})]]

ListRequest(r) ==
    /\ req[r].pc = "idle"
    /\ Arrives(r)
    /\ \E webid \in WebIds :
        req' = [req EXCEPT ![r] =
            [@ EXCEPT !.pc = "done", !.route = "list",
                      !.user = Some([webid |-> webid]),
                      !.res = Some(ListResponse(webid, env))]]
    /\ UNCHANGED <<env, now, nextUuid, nextRand, pod>>

\* ------------------------------------------------------- POST /vc/revoke
\* !x of an optional string or id: absent, or present and empty
IsFalsy(o) == o = NoValue \/ Len(o[1]) = 0

\* the route refusing the id the test sends, which no list or issuance knows
RevokeResponseUnknownId(body, webid, t) ==
    IF body.vcId[1] = <<"test-vc-id">>
    THEN [status |-> 404, body |-> [error |-> "Credential not found"]]
    ELSE [status |-> 200,
          body |-> [success |-> TRUE, vcId |-> body.vcId[1], revokedBy |-> webid,
                    reason |-> body.reason[1], revokedAt |-> t,
                    message |-> "Credential successfully revoked"]]

\* lines 372-379: the 200 body
RevokeResponse(body, webid, t) ==
    [status |-> 200,
     body |-> [success |-> TRUE,
               vcId |-> body.vcId[1],
               revokedBy |-> webid,
               reason |-> body.reason[1],
               revokedAt |-> t,
               message |-> "Credential successfully revoked"]]

\* the route with no test of the reason
RevokeOutcomeIgnoresReason(body, webid, t) ==
    IF IsFalsy(body.vcId)
    THEN [status |-> 400, body |-> [error |-> "Missing VC ID"]]
    ELSE [status |-> 200,
          body |-> [success |-> TRUE, vcId |-> body.vcId[1], revokedBy |-> webid,
                    reason |-> body.reason, revokedAt |-> t,
                    message |-> "Credential successfully revoked"]]

\* lines 347-379: the two tests of the body, then the answer
RevokeOutcome(body, webid, t) ==
    IF IsFalsy(body.vcId)
    THEN [status |-> 400, body |-> [error |-> "Missing VC ID"]]
    ELSE IF IsFalsy(body.reason)
    THEN [status |-> 400, body |-> [error |-> "Revocation reason required"]]
    ELSE RevokeResponse(body, webid, t)

\* the credential ids the issue route has handed out with a 201
IssuedIds ==
    {req[q].vcId[1] : q \in {q \in Reqs : /\ req[q].route = "issue"
                                          /\ req[q].pc = "done"
                                          /\ req[q].res[1].status = 201}}

\* req.body.vcId values: absent, empty, an id of the list, the id the test
\* sends, and the ids issued so far
RevokeIds ==
    {NoValue, Some(<<>>), Some(<<"urn:uuid:", "pip-benefit-award-001">>),
     Some(<<"test-vc-id">>)} \cup {Some(id) : id \in IssuedIds}

\* req.body.reason values: absent, empty, and the reason the test sends
RevokeReasons == {NoValue, Some(""), Some("Testing revocation")}

\* the route deleting the ACL of the credential it revokes
RevokeRequestDeletesAcl(r) ==
    /\ req[r].pc = "idle"
    /\ Arrives(r)
    /\ \E webid \in WebIds, vcId \in RevokeIds, reason \in RevokeReasons :
        LET body == [vcId |-> vcId, reason |-> reason]
            issued == {q \in Reqs : /\ req[q].route = "issue"
                                   /\ req[q].vcId = vcId
                                   /\ IsDefined(req[q].targetPodUrl)}
        IN /\ req' = [req EXCEPT ![r] =
                [@ EXCEPT !.pc = "done", !.route = "revoke",
                          !.user = Some([webid |-> webid]),
                          !.body = Some(body),
                          !.res = Some(RevokeOutcome(body, webid, now))]]
           /\ pod' = IF issued = {} \/ IsFalsy(reason)
                     THEN pod
                     ELSE LET q == CHOOSE q \in issued : TRUE
                          IN deleteResource(pod, AclUrl(req[q].targetPodUrl[1],
                                                        req[q].vcId[1]))
    /\ UNCHANGED <<env, now, nextUuid, nextRand>>

RevokeRequest(r) ==
    /\ req[r].pc = "idle"
    /\ Arrives(r)
    /\ \E webid \in WebIds, vcId \in RevokeIds, reason \in RevokeReasons :
        LET body == [vcId |-> vcId, reason |-> reason]
        IN req' = [req EXCEPT ![r] =
                [@ EXCEPT !.pc = "done", !.route = "revoke",
                          !.user = Some([webid |-> webid]),
                          !.body = Some(body),
                          !.res = Some(RevokeOutcome(body, webid, now))]]
    /\ UNCHANGED <<env, now, nextUuid, nextRand, pod>>

\* the routes of the registry together with the issue route
NextRegistry ==
    \/ Tick
    \/ \E r \in Reqs : IssueRequest(r)
    \/ \E r \in Reqs : ResolveRoot(r)
    \/ \E r \in Reqs : PutJsonLd(r)
    \/ \E r \in Reqs : PutTurtle(r)
    \/ \E r \in Reqs : updateCredentialsIndex(r)
    \/ \E r \in Reqs : setCredentialPermissions(r)
    \/ \E r \in Reqs : StoreReturn(r)
    \/ \E r \in Reqs : ListRequest(r)
    \/ \E r \in Reqs : RevokeRequest(r)

SpecRegistry == Init /\ [][NextRegistry]_vars

\* =========================================================== properties
Issuances == {r \in Reqs : req[r].route = "issue"}

Previews == {r \in Reqs : req[r].route = "preview"}

Done(r) == req[r].pc = "done"

CallsOf(r, op) == {i \in DOMAIN req[r].calls : req[r].calls[i].op = op}

CallOk(r, op) == \E i \in CallsOf(r, op) : req[r].calls[i].ok

CallFailed(r, op) == \E i \in CallsOf(r, op) : ~req[r].calls[i].ok

\* the caller is told the issuance succeeded: storeCredential returned
\* success and the route answered 201 with success
ReportsSuccess(r) ==
    /\ IsDefined(req[r].res)
    /\ req[r].res[1].status = 201
    /\ req[r].res[1].body.success
    /\ IsDefined(req[r].storageResult)
    /\ req[r].storageResult[1].success

BothFormatsWritten(r) == CallOk(r, "putJsonLd") /\ CallOk(r, "putTurtle")

\* the URLs of the two format artifacts of an issuance
ArtifactUrls(r) ==
    {JsonLdUrl(req[r].targetPodUrl[1], req[r].vcId[1]),
     TurtleUrl(req[r].targetPodUrl[1], req[r].vcId[1])}

\* C1: an issuance reports success if and only if its JSON-LD write and its
\* Turtle write both succeeded, whatever became of the index and ACL writes:
\* no success is reported before or without the two writes, and a finished
\* issuance whose two writes succeeded has reported success.
C1_SuccessIffBothFormatsWritten ==
    \A r \in Issuances :
        /\ ReportsSuccess(r) => BothFormatsWritten(r)
        /\ (Done(r) /\ BothFormatsWritten(r)) => ReportsSuccess(r)

\* C1 witness: a successful issuance whose index write and ACL write both failed
C1_Witness ==
    \E r \in Issuances :
        /\ ReportsSuccess(r)
        /\ CallFailed(r, "putIndex")
        /\ CallFailed(r, "putAcl")

\* C2: when the JSON-LD write succeeded and the Turtle write failed, the
\* issuance reports PartialWrite naming the Turtle format as the missing one,
\* and the JSON-LD artifact is still stored.
C2_PartialWriteReported ==
    \A r \in Issuances :
        (Done(r) /\ CallOk(r, "putJsonLd") /\ CallFailed(r, "putTurtle")) =>
            /\ JsonLdUrl(req[r].targetPodUrl[1], req[r].vcId[1]) \in DOMAIN pod
            /\ req[r].res[1].body.error = "PartialWrite"
            /\ "missing" \in DOMAIN req[r].res[1].body
            /\ req[r].res[1].body.missing = "turtle"

\* a property k of what the caller gets back: of storeCredential's result or
\* of the response body
ResultHas(r, k) ==
    \/ k \in DOMAIN req[r].storageResult[1]
    \/ k \in DOMAIN req[r].res[1].body

\* C3: when the index write fails after both format writes succeeded, the
\* issuance returns success, its result carries indexUpdated = false, and both
\* format artifacts are at their direct paths.
C3_IndexFailureFlagged ==
    \A r \in Issuances :
        (Done(r) /\ BothFormatsWritten(r) /\ CallFailed(r, "putIndex")) =>
            /\ ReportsSuccess(r)
            /\ ArtifactUrls(r) \subseteq DOMAIN pod
            /\ ResultHas(r, "indexUpdated")
            /\ req[r].storageResult[1].indexUpdated = FALSE

\* What a result says about the issuance once the values that only identify
\* the credential (its id, its URLs, the credential itself, the time and the
\* request's metadata) are set aside.
Outcome(r) ==
    LET result == req[r].storageResult[1]
        body == req[r].res[1].body
        identifying == {"vcId", "vc", "storageLocation", "issuanceDate", "metadata"}
    IN [status |-> req[r].res[1].status,
        result |-> [k \in DOMAIN result \ {"locations"} |-> result[k]],
        body |-> [k \in DOMAIN body \ identifying |-> body[k]]]

\* C4: an issuance whose ACL write failed still succeeds, and its result
\* differs from the result of an issuance whose ACL write succeeded.
C4_GrantFailureDistinct ==
    \A r1 \in Issuances, r2 \in Issuances :
        (/\ Done(r1) /\ BothFormatsWritten(r1) /\ CallFailed(r1, "putAcl")
         /\ Done(r2) /\ BothFormatsWritten(r2) /\ CallOk(r2, "putAcl")) =>
            /\ ReportsSuccess(r1)
            /\ ReportsSuccess(r2)
            /\ Outcome(r1) # Outcome(r2)

\* the pod calls of one issuance, in order: root resolution (unless the
\* request names its pod), then the four writes with their URLs
ExpectedCalls(r) ==
    LET podUrl == req[r].targetPodUrl[1]
        vcId == req[r].vcId[1]
    IN (IF IsDefined(req[r].body[1].podUrl)
        THEN <<>>
        ELSE << [op |-> "discoverPodUrl", url |-> NoValue] >>) \o
       << [op |-> "putJsonLd", url |-> Some(JsonLdUrl(podUrl, vcId))],
          [op |-> "putTurtle", url |-> Some(TurtleUrl(podUrl, vcId))],
          [op |-> "putIndex", url |-> Some(IndexUrl(podUrl))],
          [op |-> "putAcl", url |-> Some(AclUrl(podUrl, vcId))] >>

\* C5: the pod calls of an issuance are, in order and each at most once, root
\* resolution, the JSON-LD write, the Turtle write, the index write and the
\* ACL write; an issuance that reports success made all four writes.
C5_FixedOrderNoRetry ==
    \A r \in Issuances :
        req[r].calls # <<>> =>
            LET calls == req[r].calls
                expected == ExpectedCalls(r)
            IN /\ Len(calls) <= Len(expected)
               /\ \A i \in DOMAIN calls :
                    /\ calls[i].op = expected[i].op
                    /\ calls[i].url = expected[i].url
               /\ ReportsSuccess(r) => Len(calls) = Len(expected)

\* C5 witness: a successful issuance that resolved its root and went on to
\* the ACL write after its index write failed
C5_Witness ==
    \E r \in Issuances :
        /\ ReportsSuccess(r)
        /\ CallOk(r, "discoverPodUrl")
        /\ CallFailed(r, "putIndex")
        /\ CallsOf(r, "putAcl") # {}

\* C6: whatever an issuance has written is still in the pod, however the
\* issuance went on or ended.
C6_NoRollback ==
    \A r \in Issuances :
        \A i \in DOMAIN req[r].calls :
            (req[r].calls[i].ok /\ IsDefined(req[r].calls[i].url)) =>
                req[r].calls[i].url[1] \in DOMAIN pod

\* C6 witness: an issuance that failed at its Turtle write with its JSON-LD
\* artifact still stored
C6_Witness ==
    \E r \in Issuances :
        /\ Done(r)
        /\ CallOk(r, "putJsonLd")
        /\ CallFailed(r, "putTurtle")
        /\ JsonLdUrl(req[r].targetPodUrl[1], req[r].vcId[1]) \in DOMAIN pod

\* C7: the credentials index of a pod lists the artifacts of every credential
\* issued to that pod whose index write succeeded.
C7_IndexKeepsEarlierEntries ==
    \A r \in Issuances :
        (ReportsSuccess(r) /\ CallOk(r, "putIndex")) =>
            LET url == IndexUrl(req[r].targetPodUrl[1])
            IN /\ url \in DOMAIN pod
               /\ {Append(req[r].vcId[1], ".jsonld"), Append(req[r].vcId[1], ".ttl")}
                    \subseteq pod[url].content.contains

\* the resource URLs an issuance has sent a write to
WrittenUrls(r) ==
    {req[r].calls[i].url[1] :
        i \in {j \in DOMAIN req[r].calls : IsDefined(req[r].calls[j].url)}}

\* C8: two issuances with different credential ids write to no common
\* resource URL.
C8_DisjointPaths ==
    \A r1 \in Issuances, r2 \in Issuances :
        (/\ IsDefined(req[r1].vcId) /\ IsDefined(req[r2].vcId)
         /\ req[r1].vcId # req[r2].vcId) =>
            WrittenUrls(r1) \cap WrittenUrls(r2) = {}

EncodeCalls == {r \in Reqs : req[r].route = "encode"}

\* C9: both encodings of a preview credential have no proof block, both
\* encodings of a credential that is not a preview have one.
C9_ProofIffNotPreview ==
    \A r \in EncodeCalls :
        LET preview == req[r].args[1].preview
            jsonLdVc == req[r].jsonLdVc[1]
            turtleVc == req[r].turtleVc[1]
        IN /\ preview = Some(TRUE) =>
                (~JsonLdHasProof(jsonLdVc) /\ ~TurtleHasProof(turtleVc))
           /\ preview = Some(FALSE) =>
                (JsonLdHasProof(jsonLdVc) /\ TurtleHasProof(turtleVc))

\* C9 witness: a preview credential encoded twice, each time without a proof
\* block in either format
C9_Witness ==
    \E r1 \in EncodeCalls, r2 \in EncodeCalls :
        /\ r1 # r2
        /\ req[r1].args[1].preview = Some(TRUE)
        /\ ~JsonLdHasProof(req[r1].jsonLdVc[1])
        /\ ~TurtleHasProof(req[r1].turtleVc[1])
        /\ ~JsonLdHasProof(req[r2].jsonLdVc[1])
        /\ ~TurtleHasProof(req[r2].turtleVc[1])

\* the ids the preview route has shown
PreviewIds == {req[r].vcId[1] : r \in Previews}

\* the credential documents in the pod, by format
StoredJsonLd == {u \in DOMAIN pod : pod[u].contentType = "application/ld+json"}

StoredTurtle ==
    {u \in DOMAIN pod : /\ pod[u].contentType = "text/turtle"
                        /\ "statements" \in DOMAIN pod[u].content}

\* C10: a preview request makes no pod call, every credential document an
\* issuance hands to putResource carries a proof, and so does every
\* credential document in the pod, none of which has the id of a preview.
C10_PreviewNeverPersisted ==
    /\ \A r \in Previews : req[r].calls = <<>> /\ ~IsDefined(req[r].targetPodUrl)
    /\ \A r \in Issuances :
            IsDefined(req[r].jsonLdVc) =>
                /\ JsonLdHasProof(req[r].jsonLdVc[1])
                /\ TurtleHasProof(req[r].turtleVc[1])
    /\ \A u \in StoredJsonLd :
            /\ JsonLdHasProof(pod[u].content)
            /\ pod[u].content.id[1] \notin PreviewIds
    /\ \A u \in StoredTurtle :
            /\ TurtleHasProof(pod[u].content)
            /\ \A id \in PreviewIds : pod[u].content.subject # id

\* C10 witness: a preview was answered and an issuance has stored both formats
C10_Witness ==
    /\ \E r \in Previews : Done(r)
    /\ \E r \in Issuances : BothFormatsWritten(r)
    /\ StoredJsonLd # {}
    /\ StoredTurtle # {}


\* the Turtle predicate that carries each claim of credentialSubject
TurtlePredicateOf ==
    [benefitType |-> "schema:benefitType",
     amount |-> "schema:amount",
     assessmentDate |-> "schema:dateCreated",
     totalWeeklyAmount |-> "schema:totalAmount"]

\* a claim of a JSON-LD credentialSubject as the text a template would print
ClaimText(subject, k) ==
    IF k \in {"benefitType", "amount", "assessmentDate"}
    THEN Interpolate(subject[k])
    ELSE subject[k]

\* the Turtle document states claim k of the JSON-LD subject with its value
TurtleCarriesClaim(turtle, subject, k) ==
    /\ k \in DOMAIN TurtlePredicateOf
    /\ TurtlePredicateOf[k] \in DOMAIN turtle.statements
    /\ turtle.statements[TurtlePredicateOf[k]] = ClaimText(subject, k)

\* the two documents name the same credential, subject and issuer
SameIdentity(jsonLdVc, turtle) ==
    /\ Interpolate(jsonLdVc.id) = turtle.subject
    /\ Interpolate(jsonLdVc.credentialSubject.id) =
            turtle.statements["cred:credentialSubject"]
    /\ jsonLdVc.issuer = turtle.statements["cred:issuer"]

\* C11: the JSON-LD artifact and the Turtle artifact of one issuance encode
\* the same id, subject, issuer, claim values and proof signature.
C11_FormatsEncodeSameCredential ==
    \A r \in Issuances :
        BothFormatsWritten(r) =>
            LET jsonLdVc == pod[JsonLdUrl(req[r].targetPodUrl[1], req[r].vcId[1])].content
                turtle == pod[TurtleUrl(req[r].targetPodUrl[1], req[r].vcId[1])].content
            IN /\ SameIdentity(jsonLdVc, turtle)
               /\ \A k \in DOMAIN jsonLdVc.credentialSubject \ {"id"} :
                    TurtleCarriesClaim(turtle, jsonLdVc.credentialSubject, k)
               /\ JsonLdHasProof(jsonLdVc) = TurtleHasProof(turtle)
               /\ JsonLdHasProof(jsonLdVc) =>
                    jsonLdVc.proof.jws = turtle.statements["cred:proof"]["cred:jws"]


\* two encoder calls given the same unsigned (preview) credential
SamePreviewEncodedTwice(r1, r2) ==
    /\ r1 \in EncodeCalls
    /\ r2 \in EncodeCalls
    /\ req[r1].args = req[r2].args
    /\ PreviewOf(req[r1].args[1])

\* C12: encoding the same unsigned credential at any two moments yields
\* identical output in each format.
C12_PreviewEncodingIndependentOfTime ==
    \A r1, r2 \in Reqs :
        SamePreviewEncodedTwice(r1, r2) =>
            /\ req[r1].jsonLdVc = req[r2].jsonLdVc
            /\ req[r1].turtleVc = req[r2].turtleVc


\* the issuances whose ACL write succeeded
AclWritten == {r \in Issuances : CallOk(r, "putAcl")}

\* the ACL document the pod holds for the credential of issuance r
StoredAcl(r) == pod[AclUrl(req[r].targetPodUrl[1], req[r].vcId[1])].content

\* the authorizations of an ACL document that allow writing or control
WritingGrants(acl) ==
    {n \in DOMAIN acl : acl[n].mode \cap {"acl:Write", "acl:Control"} # {}}

\* C13: whenever the ACL write succeeds, the owner (the authenticated
\* subject's WebID) has read, write and control, EON has read only, and no
\* agent or class other than the owner has write or control.
C13_GrantsOwnerFullEonReadOnly ==
    \A r \in AclWritten :
        LET acl == StoredAcl(r)
        IN /\ DOMAIN acl.owner = {"agent", "accessTo", "mode"}
           /\ acl.owner.agent = req[r].user[1].webid
           /\ acl.owner.mode = {"acl:Read", "acl:Write", "acl:Control"}
           /\ acl.eonAccess.agent = "https://eon.co.uk/did.json"
           /\ acl.eonAccess.mode = {"acl:Read"}
           /\ WritingGrants(acl) = {"owner"}

C13_Witness ==
    \E r \in AclWritten :
        /\ Done(r)
        /\ req[r].user[1].webid = Bob
        /\ StoredAcl(r).owner.agent = Bob
        /\ "publicRead" \in DOMAIN StoredAcl(r)


\* ------------------------------------------------------------ the registry
Revocations == {r \in Reqs : req[r].route = "revoke"}

Lists == {r \in Reqs : req[r].route = "list"}

\* the step in which request r is handled by the revoke route
RevokeHandled(r) == req[r].pc = "idle" /\ req'[r].route = "revoke"

\* a step changes nothing but the answer given to request r
OnlyAnswers(r) ==
    /\ <<env, nextUuid, nextRand, pod>>' = <<env, nextUuid, nextRand, pod>>
    /\ \A q \in Reqs \ {r} : req'[q] = req[q]
    /\ \A webid \in WebIds : ListResponse(webid, env') = ListResponse(webid, env)

RejectedWith(r, status, error) ==
    /\ req[r].res[1].status = status
    /\ req[r].res[1].body = [error |-> error]

\* C14 as stated: every revoke with an empty or missing reason is answered
\* 400 'Revocation reason required'.
C14_EveryEmptyReasonNamed ==
    \A r \in Revocations :
        IsFalsy(req[r].body[1].reason) =>
            RejectedWith(r, 400, "Revocation reason required")

\* C14: a revoke that names a credential and has an empty or missing reason
\* is answered 400 'Revocation reason required' and changes nothing: the
\* pod and every user's list are as they were.
C14_EmptyReasonRejected ==
    [][\A r \in Reqs :
        (/\ RevokeHandled(r)
         /\ ~IsFalsy(req'[r].body[1].vcId)
         /\ IsFalsy(req'[r].body[1].reason))
        => /\ req'[r].res[1].status = 400
           /\ req'[r].res[1].body = [error |-> "Revocation reason required"]
           /\ OnlyAnswers(r)]_vars

C14_Witness ==
    \E r \in Revocations, q \in Issuances :
        /\ ReportsSuccess(q)
        /\ req[r].body[1].vcId = req[q].vcId
        /\ req[r].body[1].reason = Some("")
        /\ RejectedWith(r, 400, "Revocation reason required")


\* a revoke whose body names a credential and gives a reason
WellFormed(r) ==
    /\ ~IsFalsy(req[r].body[1].vcId)
    /\ ~IsFalsy(req[r].body[1].reason)

Revoked(r) == req[r].res[1].status = 200 /\ req[r].res[1].body.success

\* the issuances that stored the credential revoke r names
IssuancesOf(r) ==
    {q \in Issuances : ReportsSuccess(q) /\ req[q].vcId = req[r].body[1].vcId}

\* C15: a revoke by anyone but the owner of the credential fails (Forbidden).
C15_OnlyOwnerRevokes ==
    \A r \in Revocations :
        \A q \in IssuancesOf(r) :
            (WellFormed(r) /\ req[r].user # req[q].user) => ~Revoked(r)

\* the ids the service knows: those of the list and those it issued
KnownIds == {mockVcList(env)[i].id : i \in DOMAIN mockVcList(env)} \cup IssuedIds

\* C16: a revoke of an id the service does not know fails (NotFound).
C16_UnknownIdRejected ==
    \A r \in Revocations :
        (WellFormed(r) /\ req[r].body[1].vcId[1] \notin KnownIds) => ~Revoked(r)

\* C17: a revoke with a non-empty vcId and a non-empty reason is answered 200
\* with success, the vcId and the reason it was sent, and the caller's WebID
\* as revokedBy, whatever the vcId.
C17_RevokeEchoesRequest ==
    \A r \in Revocations :
        WellFormed(r) =>
            /\ req[r].res[1].status = 200
            /\ req[r].res[1].body.success
            /\ req[r].res[1].body.vcId = req[r].body[1].vcId[1]
            /\ req[r].res[1].body.reason = req[r].body[1].reason[1]
            /\ req[r].res[1].body.revokedBy = req[r].user[1].webid

C17_Witness ==
    \E r \in Revocations :
        /\ req[r].user[1].webid = Alice
        /\ req[r].body[1] = [vcId |-> Some(<<"test-vc-id">>),
                             reason |-> Some("Testing revocation")]
        /\ Revoked(r)
        /\ req[r].res[1].body.revokedBy = Alice

\* C18: revocation is one-way: a second revoke of a credential already
\* revoked fails (AlreadyRevoked).
C18_SecondRevokeFails ==
    \A r1, r2 \in Revocations :
        (/\ r1 < r2
         /\ WellFormed(r1)
         /\ Revoked(r1)
         /\ req[r2].body[1].vcId = req[r1].body[1].vcId
         /\ WellFormed(r2))
        => ~Revoked(r2)

\* the list shows credential id as revoked, with a reason
ShownRevoked(credentials, id) ==
    \E i \in DOMAIN credentials :
        /\ credentials[i].id = id
        /\ credentials[i].status = "revoked"
        /\ "revocationReason" \in DOMAIN credentials[i]
        /\ ~IsFalsy(Some(credentials[i].revocationReason))

\* C19: after a successful revoke, every later list of the same user shows
\* the credential with status revoked and a non-empty revocationReason.
C19_ListShowsRevoked ==
    \A r \in Revocations, l \in Lists :
        (/\ r < l
         /\ WellFormed(r)
         /\ Revoked(r)
         /\ req[l].user = req[r].user)
        => ShownRevoked(req[l].res[1].body.credentials, req[r].body[1].vcId[1])

\* C20: a revoke performs no pod write and no pod delete: the pod, and so
\* every grant written at issuance, is the same before and after it.
C20_RevokeLeavesPodAlone ==
    [][\A r \in Reqs :
        RevokeHandled(r) => /\ pod' = pod
                            /\ req'[r].calls = <<>>]_vars

C20_Witness ==
    \E r \in Revocations :
        \E q \in IssuancesOf(r) \cap AclWritten :
            /\ WellFormed(r)
            /\ Revoked(r)
            /\ AclUrl(req[q].targetPodUrl[1], req[q].vcId[1]) \in DOMAIN pod
            /\ StoredAcl(q) = AclDocument(req[q].vcId[1], req[q].user[1])


\* ------------------------------------------------- storage root resolution
\* an issuance for which neither the body nor the WebID gives a storage root
RootUndetermined(r) ==
    /\ r \in Issuances
    /\ req[r].body[1].confirm
    /\ req[r].body[1].podUrl = NoValue
    /\ ~IsParseable(req[r].user[1].webid)

\* the PUT requests issuance r has sent, failed ones included
PutCalls(r) == {i \in DOMAIN req[r].calls : req[r].calls[i].op # "discoverPodUrl"}

\* C21: when no storage root can be determined for the subject and no
\* explicit podUrl is given, the issuance fails (PodUnresolvable) and writes
\* nothing to any pod.
C21_UnresolvableRootFails ==
    \A r \in Reqs :
        RootUndetermined(r) =>
            /\ PutCalls(r) = {}
            /\ ~ReportsSuccess(r)


\* ------------------------------------------ discoverPodUrl called on its own
\* WebID strings beyond those of the routes: one with the http scheme and a
\* DID, which new URL() parses with protocol 'did:' and an empty host
Erin == [protocol |-> "http:", host |-> "localhost:3000", rest |-> "/erin#me"]

Dave == [protocol |-> "did:", host |-> "", rest |-> "web:user.example.org"]

DiscoverWebIds == WebIds \cup {Erin, Dave}

DiscoverCall(r) ==
    /\ req[r].pc = "idle"
    /\ Arrives(r)
    /\ \E webid \in DiscoverWebIds :
        req' = [req EXCEPT ![r] =
            [@ EXCEPT !.pc = "done", !.route = "discoverPodUrl",
                      !.args = Some(webid),
                      !.res = Some(discoverPodUrl(webid, env))]]
    /\ UNCHANGED <<env, now, nextUuid, nextRand, pod>>

NextDiscover == \E r \in Reqs : DiscoverCall(r)

SpecDiscover == Init /\ [][NextDiscover]_vars

DiscoverCalls == {r \in Reqs : req[r].route = "discoverPodUrl"}

\* the URL printed as a string starts with http:// or https://
IsHttpUrl(url) == url.protocol \in {"http:", "https:"}

\* C22: for every WebID string, discoverPodUrl resolves to a string that
\* starts with http:// or https://.
C22_DiscoverGivesHttpUrl ==
    \A r \in DiscoverCalls : IsHttpUrl(req[r].res[1])


\* --------------------------------------------------- building a credential
\* the input of an encoder call lacks a subject or a mandatory claim
InvalidInput(vcData) ==
    \/ ~IsDefined(vcData.webid)
    \/ "benefitType" \notin DOMAIN vcData.benefitData
    \/ "amount" \notin DOMAIN vcData.benefitData

\* C23: building a credential from a missing subject identifier, or from
\* claims that lack the benefit type or the amount, fails and produces no
\* credential in either format.
C23_InvalidInputYieldsNoCredential ==
    \A r \in EncodeCalls :
        InvalidInput(req[r].args[1]) =>
            /\ ~IsDefined(req[r].jsonLdVc)
            /\ ~IsDefined(req[r].turtleVc)

\* C24: in every signed credential, in both encodings and whether or not
\* SERVICE_DID_WEB is set, the proof's verificationMethod is the issuer
\* followed by '#key-1' and its purpose is 'assertionMethod'.
C24_VerificationMethodIsIssuerKey ==
    \A r \in EncodeCalls :
        ~PreviewOf(req[r].args[1]) =>
            LET vc == req[r].jsonLdVc[1]
                stmts == req[r].turtleVc[1].statements
            IN /\ vc.proof.verificationMethod = <<vc.issuer, "#key-1">>
               /\ vc.proof.proofPurpose = "assertionMethod"
               /\ stmts["cred:proof"]["cred:verificationMethod"] =
                        <<stmts["cred:issuer"], "#key-1">>
               /\ stmts["cred:proof"]["cred:proofPurpose"] = "assertionMethod"


\* -------------------------------------------------------- middleware/auth
\* decoded.exp: absent, a number of seconds, or a string that is no number.
\* n holds the number; a string exp compares as NaN.
NumericExp(n) == [kind |-> "number", n |-> n]

TextExp == [kind |-> "string", n |-> 0]

ExpClaims ==
    {NoValue, Some(TextExp)} \cup {Some(NumericExp(n)) : n \in -1 .. MaxClock + 1}

\* decoded.webid: absent, the empty string, or a WebID
EmptyWebId == [protocol |-> "", host |-> "", rest |-> ""]

WebIdClaims == {NoValue, Some(EmptyWebId), Some(Alice)}

\* what jwt.decode returns for a token: null, or the payload
Payloads ==
    [webid : WebIdClaims, exp : ExpClaims,
     sub : {NoValue, Some("test-user")},
     iss : {Some("http://localhost:3100")},
     aud : {Some("pip.gov.uk")}]

Decodeds == {NoValue} \cup {Some(p) : p \in Payloads}

\* req.headers.authorization: absent, empty, of another scheme, or
\* 'Bearer <token>' with what jwt.decode makes of the token
AuthHeaders ==
    {NoValue}
    \cup {Some([scheme |-> s, decoded |-> NoValue]) : s \in {"", "Basic"}}
    \cup {Some([scheme |-> "Bearer", decoded |-> d]) : d \in Decodeds}

\* !authHeader || !authHeader.startsWith('Bearer ')
IsBearer(authHeader) == IsDefined(authHeader) /\ authHeader[1].scheme = "Bearer"

\* !decoded.webid
HasWebId(payload) == IsDefined(payload.webid) /\ payload.webid[1] # EmptyWebId

\* the truthiness of decoded.exp: undefined and 0 are falsy
ExpTruthy(exp) ==
    /\ IsDefined(exp)
    /\ (exp[1].kind = "number" => exp[1].n # 0)

\* decoded.exp < Date.now() / 1000 and decoded.exp >= Date.now() / 1000
ExpBefore(exp, t) == exp[1].kind = "number" /\ exp[1].n < t

ExpNotBefore(exp, t) == exp[1].kind = "number" /\ exp[1].n >= t

\* lines 47-52 and 76-81
UserOf(payload) ==
    [webid |-> payload.webid[1], sub |-> payload.sub,
     iss |-> payload.iss, aud |-> payload.aud]

Unauthorized(message) ==
    [status |-> 401, body |-> [error |-> "Unauthorized", message |-> message]]

\* authMiddleware: the answer it gives, or the user it attaches before next()
authMiddleware(authHeader, t) ==
    IF ~IsBearer(authHeader)
    THEN [next |-> FALSE, user |-> NoValue,
          res |-> Some(Unauthorized("Missing or invalid authorization header"))]
    ELSE IF ~IsDefined(authHeader[1].decoded)
    THEN [next |-> FALSE, user |-> NoValue,
          res |-> Some(Unauthorized("Invalid token format"))]
    ELSE IF ~HasWebId(authHeader[1].decoded[1])
    THEN [next |-> FALSE, user |-> NoValue,
          res |-> Some(Unauthorized("Token missing required webid claim"))]
    ELSE IF /\ ExpTruthy(authHeader[1].decoded[1].exp)
            /\ ExpBefore(authHeader[1].decoded[1].exp, t)
    THEN [next |-> FALSE, user |-> NoValue,
          res |-> Some(Unauthorized("Token has expired"))]
    ELSE [next |-> TRUE, user |-> Some(UserOf(authHeader[1].decoded[1])),
          res |-> NoValue]

\* optionalAuth: next() is always called, with or without a user attached
optionalAuth(authHeader, t) ==
    IF /\ IsBearer(authHeader)
       /\ IsDefined(authHeader[1].decoded)
       /\ HasWebId(authHeader[1].decoded[1])
       /\ \/ ~ExpTruthy(authHeader[1].decoded[1].exp)
          \/ ExpNotBefore(authHeader[1].decoded[1].exp, t)
    THEN [next |-> TRUE, user |-> Some(UserOf(authHeader[1].decoded[1])), res |-> NoValue]
    ELSE [next |-> TRUE, user |-> NoValue, res |-> NoValue]


\* app.use('/vc', authMiddleware, vcRoutes): GET /vc/preview behind the
\* middleware; the route handler runs only when the middleware calls next()
ProtectedPreviewRequest(r) ==
    /\ req[r].pc = "idle"
    /\ Arrives(r)
    /\ \E authHeader \in AuthHeaders, accept \in AcceptHeaders :
        LET auth == authMiddleware(authHeader, now)
            arrived == [req[r] EXCEPT !.pc = "done", !.route = "protected",
                                      !.args = Some([authorization |-> authHeader,
                                                     t |-> now]),
                                      !.user = auth.user]
        IN IF ~auth.next
           THEN /\ req' = [req EXCEPT ![r] = [arrived EXCEPT !.res = auth.res]]
                /\ UNCHANGED nextUuid
           ELSE LET webid == auth.user[1].webid
                    vcId == FreshVcId
                    vcData == [id |-> Some(vcId), webid |-> Some(webid),
                               benefitData |-> PreviewBenefitData,
                               preview |-> Some(TRUE)]
                    jsonLdVc == generateJsonLdVc(vcData, env, now)
                    turtleVc == generateTurtleVc(vcData, env, now, nextRand)
                IN /\ req' = [req EXCEPT ![r] =
                        [arrived EXCEPT !.vcId = Some(vcId),
                                        !.jsonLdVc = Some(jsonLdVc),
                                        !.turtleVc = Some(turtleVc),
                                        !.res = Some(PreviewResponse(accept, vcId, webid,
                                                        jsonLdVc, turtleVc, env, now))]]
                   /\ nextUuid' = nextUuid + 1
    /\ UNCHANGED <<env, now, nextRand, pod>>

\* router.get('/dashboard', optionalAuth, ...): a UI page behind optionalAuth
DashboardRequest(r) ==
    /\ req[r].pc = "idle"
    /\ Arrives(r)
    /\ \E authHeader \in AuthHeaders :
        LET auth == optionalAuth(authHeader, now)
        IN req' = [req EXCEPT ![r] =
            [@ EXCEPT !.pc = "done", !.route = "dashboard",
                      !.args = Some([authorization |-> authHeader, t |-> now]),
                      !.user = auth.user,
                      !.res = IF ~IsDefined(auth.user)
                              THEN Some([status |-> 302,
                                         location |-> "/login?redirect=/dashboard"])
                              ELSE Some([status |-> 200, user |-> auth.user[1]])]]
    /\ UNCHANGED <<env, now, nextUuid, nextRand, pod>>

NextAuth ==
    \/ Tick
    \/ \E r \in Reqs : ProtectedPreviewRequest(r)
    \/ \E r \in Reqs : DashboardRequest(r)

SpecAuth == Init /\ [][NextAuth]_vars


ProtectedRequests == {r \in Reqs : req[r].route = "protected"}

DashboardRequests == {r \in Reqs : req[r].route = "dashboard"}

\* a numeric exp that lies before the clock value t
ExpInPast(exp, t) ==
    /\ IsDefined(exp)
    /\ exp[1].kind = "number"
    /\ exp[1].n < t

\* the requests that carry no usable token at time t
Unauthenticated(authHeader, t) ==
    \/ ~IsDefined(authHeader)
    \/ authHeader[1].scheme # "Bearer"
    \/ ~IsDefined(authHeader[1].decoded)
    \/ ~HasWebId(authHeader[1].decoded[1])
    \/ ExpInPast(authHeader[1].decoded[1].exp, t)

\* the route handler behind the middleware did not run for request r
HandlerNotRun(r) ==
    /\ ~IsDefined(req[r].vcId)
    /\ ~IsDefined(req[r].jsonLdVc)
    /\ ~IsDefined(req[r].turtleVc)
    /\ req[r].calls = <<>>

\* C25: a request to a protected route with no Authorization header, a
\* non-Bearer header, an undecodable token, a token without a webid claim or
\* a token whose exp lies in the past is answered 401 and its route handler
\* is never run.
C25_UnauthenticatedAnswered401 ==
    \A r \in ProtectedRequests :
        Unauthenticated(req[r].args[1].authorization, req[r].args[1].t) =>
            /\ req[r].res[1].status = 401
            /\ HandlerNotRun(r)

\* C28: optionalAuth attaches req.user exactly when authMiddleware would
\* call next for the same header, payload and clock value, both attach the
\* same user, and optionalAuth never rejects.
C28_OptionalAuthAgrees ==
    \A r \in DashboardRequests :
        LET strict == authMiddleware(req[r].args[1].authorization, req[r].args[1].t)
            lax == optionalAuth(req[r].args[1].authorization, req[r].args[1].t)
        IN /\ lax.next
           /\ req[r].res[1].status # 401
           /\ IsDefined(req[r].user) <=> strict.next
           /\ req[r].user = strict.user


\* ------------------------------------------------ validateVc called on its own
\* vc.type as validateVc meets it: an array of strings, or one string given
\* by its pieces (String.prototype.includes finds a piece inside the string)
ListType(items) == [kind |-> "list", parts |-> items]

StringType(pieces) == [kind |-> "string", parts |-> pieces]

\* a credential of generateJsonLdVc as the object validateVc is handed
AsObject(vc) == [vc EXCEPT !["type"] = ListType(@)]

Without(vc, field) == [k \in DOMAIN vc \ {field} |-> vc[k]]

RequiredFields ==
    <<"@context", "id", "type", "issuer", "issuanceDate", "credentialSubject">>

TypeValues ==
    {ListType(<<"VerifiableCredential">>),
     ListType(<<"PIPBenefitCredential">>),
     ListType(<<>>),
     StringType(<<"VerifiableCredential">>),
     StringType(<<"Non", "VerifiableCredential", "Draft">>),
     StringType(<<"PIPBenefitCredential">>),
     StringType(<<>>)}

\* the objects handed to validateVc: credentials of generateJsonLdVc, these
\* with one required field left out, and these with another type
ValidateInputs(e, t) ==
    LET made == {AsObject(generateJsonLdVc(vcData, e, t)) :
                    vcData \in {d \in VcDatas : d.benefitData = TestBenefitData}}
    IN made
       \cup {Without(vc, RequiredFields[i]) : vc \in made, i \in DOMAIN RequiredFields}
       \cup {[vc EXCEPT !["type"] = type] : vc \in made, type \in TypeValues}

\* !vc[field]
FieldTruthy(vc, field) ==
    /\ field \in DOMAIN vc
    /\ CASE field = "id" -> IsDefined(vc[field]) /\ vc[field][1] # <<>>
         [] field = "type" -> (vc[field].kind = "string" => vc[field].parts # <<>>)
         [] field = "issuer" -> vc[field] # ""
         [] OTHER -> TRUE

\* vc.type.includes('VerifiableCredential')
TypeIncludes(type, name) == \E i \in DOMAIN type.parts : type.parts[i] = name

Returned(value) == [returned |-> TRUE, value |-> value, error |-> <<>>]

Threw(error) == [returned |-> FALSE, value |-> FALSE, error |-> error]

validateVc(vc) ==
    LET missing == {i \in DOMAIN RequiredFields : ~FieldTruthy(vc, RequiredFields[i])}
    IN IF missing # {}
       THEN LET first == CHOOSE i \in missing : \A j \in missing : i <= j
            IN Threw(<<"Missing required field: ", RequiredFields[first]>>)
       ELSE IF ~IsDefined(vc.credentialSubject.id)
       THEN Threw(<<"Missing credentialSubject.id">>)
       ELSE IF ~TypeIncludes(vc.type, "VerifiableCredential")
       THEN Threw(<<"VC must include VerifiableCredential type">>)
       ELSE Returned(TRUE)

ValidateCall(r) ==
    /\ req[r].pc = "idle"
    /\ Arrives(r)
    /\ \E vc \in ValidateInputs(env, now) :
        req' = [req EXCEPT ![r] =
            [@ EXCEPT !.pc = "done", !.route = "validateVc",
                      !.args = Some(vc),
                      !.res = Some(validateVc(vc))]]
    /\ UNCHANGED <<env, now, nextUuid, nextRand, pod>>

NextValidate == \E r \in Reqs : ValidateCall(r)

SpecValidate == Init /\ [][NextValidate]_vars

ValidateCalls == {r \in Reqs : req[r].route = "validateVc"}

\* the object has all six fields, a credentialSubject.id, and a type list
\* that contains 'VerifiableCredential'
WellFormedVc(vc) ==
    /\ \A i \in DOMAIN RequiredFields : FieldTruthy(vc, RequiredFields[i])
    /\ IsDefined(vc.credentialSubject.id)
    /\ vc.type.kind = "list"
    /\ TypeIncludes(vc.type, "VerifiableCredential")

\* C26: validateVc returns true exactly for the well-formed objects and
\* throws for every other object.
C26_ValidateExactlyWellFormed ==
    \A r \in ValidateCalls :
        /\ req[r].res[1].returned <=> WellFormedVc(req[r].args[1])
        /\ req[r].res[1].returned => req[r].res[1].value


\* ---------------------------------------------------- the confirm field
\* the issue route did nothing for request r but answer it
NothingDone(r) ==
    /\ ~IsDefined(req[r].vcId)
    /\ ~IsDefined(req[r].jsonLdVc)
    /\ ~IsDefined(req[r].turtleVc)
    /\ ~IsDefined(req[r].targetPodUrl)
    /\ ~IsDefined(req[r].storageResult)
    /\ req[r].calls = <<>>

AllWritesOk(r) ==
    \A op \in {"putJsonLd", "putTurtle", "putIndex", "putAcl"} :
        CallOk(r, op) /\ ~CallFailed(r, op)

\* C27: an issue request without a truthy confirm is answered 400
\* 'Confirmation required' and nothing else is done for it; with confirm true
\* and all writes succeeding the answer is 201 with success, the vcId and
\* the signed JSON-LD credential.
C27_ConfirmGatesIssuance ==
    \A r \in Issuances :
        /\ ~req[r].body[1].confirm =>
                /\ Done(r)
                /\ req[r].res[1].status = 400
                /\ req[r].res[1].body.error = "Confirmation required"
                /\ NothingDone(r)
        /\ (req[r].body[1].confirm /\ Done(r) /\ AllWritesOk(r)) =>
                /\ req[r].res[1].status = 201
                /\ req[r].res[1].body.success
                /\ req[r].res[1].body.vcId = req[r].vcId[1]
                /\ req[r].res[1].body.vc = req[r].jsonLdVc[1]
                /\ JsonLdHasProof(req[r].res[1].body.vc)
                /\ Interpolate(req[r].res[1].body.vc.id) = req[r].vcId[1]

C27_Witness ==
    \E r1, r2 \in Issuances :
        /\ ~req[r1].body[1].confirm
        /\ req[r1].res[1] = [status |-> 400, body |-> ConfirmationRequired]
        /\ req[r2].body[1].confirm
        /\ Done(r2)
        /\ AllWritesOk(r2)
        /\ req[r2].res[1].status = 201


\* ------------------------------------------- deleteCredential after a store
\* lines 218-222: the four resources deleteCredential deletes, in order
DeleteTargets(podUrl, vcId) ==
    << JsonLdUrl(podUrl, vcId),
       TurtleUrl(podUrl, vcId),
       WithSuffix(CredentialUrl(podUrl, vcId), ".jsonld.acl"),
       WithSuffix(CredentialUrl(podUrl, vcId), ".ttl.acl") >>

\* the issuances whose storeCredential has returned
Stored == {q \in Issuances : Done(q) /\ ReportsSuccess(q)}

\* deleteCredential(podUrl, vcId, user) is called for a stored credential
DeleteCall(r) ==
    /\ req[r].pc = "idle"
    /\ Arrives(r)
    /\ \E q \in Stored :
        req' = [req EXCEPT ![r] =
            [@ EXCEPT !.pc = "delete", !.route = "deleteCredential",
                      !.user = req[q].user,
                      !.vcId = req[q].vcId,
                      !.targetPodUrl = req[q].targetPodUrl,
                      !.args = Some([of |-> q])]]
    /\ UNCHANGED <<env, now, nextUuid, nextRand, pod>>

\* one await this.deleteResource(...): it deletes, or it throws and
\* deleteCredential rethrows (lines 228-230)
DeleteNext(r) ==
    /\ req[r].pc = "delete"
    /\ LET rq == req[r]
           targets == DeleteTargets(rq.targetPodUrl[1], rq.vcId[1])
           url == targets[Len(rq.calls) + 1]
       IN \E ok \in BOOLEAN :
            /\ pod' = IF ok THEN deleteResource(pod, url) ELSE pod
            /\ req' = [req EXCEPT ![r] =
                    [rq EXCEPT
                        !.calls = Append(@, Call("delete", Some(url), ok)),
                        !.pc = IF ok /\ Len(rq.calls) + 1 < Len(targets)
                               THEN "delete" ELSE "done",
                        !.res = IF ~ok
                                THEN Some([success |-> FALSE,
                                           error |-> <<"Failed to delete credential: ",
                                                       "HTTP DELETE failed: ",
                                                       TransportError>>])
                                ELSE IF Len(rq.calls) + 1 = Len(targets)
                                THEN Some([success |-> TRUE, error |-> <<>>])
                                ELSE NoValue]]
    /\ UNCHANGED <<env, now, nextUuid, nextRand>>

NextUndo ==
    \/ \E r \in Reqs : IssueRequest(r)
    \/ \E r \in Reqs : ResolveRoot(r)
    \/ \E r \in Reqs : PutJsonLd(r)
    \/ \E r \in Reqs : PutTurtle(r)
    \/ \E r \in Reqs : updateCredentialsIndex(r)
    \/ \E r \in Reqs : setCredentialPermissions(r)
    \/ \E r \in Reqs : StoreReturn(r)
    \/ \E r \in Reqs : DeleteCall(r)
    \/ \E r \in Reqs : DeleteNext(r)

SpecUndo == Init /\ [][NextUndo]_vars

Deletions == {r \in Reqs : req[r].route = "deleteCredential"}

\* the URLs storeCredential wrote for issuance q
WrittenBy(q) ==
    {req[q].calls[i].url[1] :
        i \in {i \in DOMAIN req[q].calls : /\ req[q].calls[i].ok
                                           /\ IsDefined(req[q].calls[i].url)}}

\* the pod's index lists the credential vcId
IndexRefers(podUrl, vcId) ==
    /\ IndexUrl(podUrl) \in DOMAIN pod
    /\ Append(vcId, ".jsonld") \in pod[IndexUrl(podUrl)].content.contains

\* C29: deleteCredential after storeCredential for the same pod and id
\* deletes every resource storeCredential wrote for the id and only such
\* resources: afterwards the pod holds no artifact, ACL or index entry of
\* the credential.
C29_DeleteUndoesStore ==
    \A r \in Deletions :
        (Done(r) /\ req[r].res[1].success) =>
            LET q == req[r].args[1].of
                podUrl == req[r].targetPodUrl[1]
                vcId == req[r].vcId[1]
            IN /\ JsonLdUrl(podUrl, vcId) \notin DOMAIN pod
               /\ TurtleUrl(podUrl, vcId) \notin DOMAIN pod
               /\ AclUrl(podUrl, vcId) \notin DOMAIN pod
               /\ ~IndexRefers(podUrl, vcId)
               /\ \A i \in DOMAIN req[r].calls :
                    req[r].calls[i].url[1] \in WrittenBy(q)


\* --------------------------------------------- convertFormat called on its own
\* the vc argument: a JSON-LD credential object, or a Turtle string
ObjectInput(vc) == [kind |-> "object", value |-> vc]

StringInput(turtle) == [kind |-> "string", value |-> turtle]

TargetFormats == {"application/ld+json", "text/turtle", "application/xml"}

\* lines 429-432: the benefitData convertFormat rebuilds from the credential;
\* a property that is undefined prints as a missing one does
ConvertedBenefitData(vc) ==
    LET subject == vc.credentialSubject
        given == {k \in {"benefitType", "amount", "assessmentDate"} : IsDefined(subject[k])}
    IN [k \in given |-> subject[k][1]]

convertFormat(input, targetFormat, e, t, rnd) ==
    IF targetFormat = "application/ld+json"
    THEN IF input.kind = "string"
         THEN Threw(<<"JSON.parse: unexpected token">>)
         ELSE Returned(input.value)
    ELSE IF targetFormat = "text/turtle"
    THEN IF input.kind = "string"
         THEN Returned(input.value)
         ELSE Returned(generateTurtleVc(
                        [id |-> input.value.id,
                         webid |-> input.value.credentialSubject.id,
                         benefitData |-> ConvertedBenefitData(input.value),
                         preview |-> NoValue], e, t, rnd))
    ELSE Threw(<<"Unsupported format: ", targetFormat>>)

\* the credentials handed to convertFormat: both encodings of a vcData that
\* has an id and a WebID
ConvertInputs(e, t, rnd) ==
    LET datas == {d \in VcDatas : IsDefined(d.id) /\ IsDefined(d.webid)}
    IN {ObjectInput(generateJsonLdVc(d, e, t)) : d \in datas}
       \cup {StringInput(generateTurtleVc(d, e, t, rnd)) : d \in datas}

ConvertCall(r) ==
    /\ req[r].pc = "idle"
    /\ Arrives(r)
    /\ \E input \in ConvertInputs(env, now, nextRand), targetFormat \in TargetFormats :
        req' = [req EXCEPT ![r] =
            [@ EXCEPT !.pc = "done", !.route = "convertFormat",
                      !.args = Some([vc |-> input, targetFormat |-> targetFormat]),
                      !.res = Some(convertFormat(input, targetFormat, env, now,
                                                 nextRand + 1))]]
    /\ nextRand' = nextRand + 2
    /\ UNCHANGED <<env, now, nextUuid, pod>>

NextConvert ==
    \/ Tick
    \/ \E r \in Reqs : ConvertCall(r)

SpecConvert == Init /\ [][NextConvert]_vars

\* the calls that convert a JSON-LD credential object to Turtle
ToTurtleCalls ==
    {r \in Reqs : /\ req[r].route = "convertFormat"
                  /\ req[r].args[1].targetFormat = "text/turtle"
                  /\ req[r].args[1].vc.kind = "object"}

\* C30: converting a JSON-LD credential to text/turtle preserves it: the
\* Turtle has a proof block exactly when the input has a proof, and it
\* carries every claim of the input.
C30_ConvertPreservesCredential ==
    \A r \in ToTurtleCalls :
        LET vc == req[r].args[1].vc.value
            out == req[r].res[1]
        IN /\ out.returned
           /\ TurtleHasProof(out.value) <=> JsonLdHasProof(vc)
           /\ \A k \in DOMAIN vc.credentialSubject \ {"id"} :
                TurtleCarriesClaim(out.value, vc.credentialSubject, k)

====
